---- MODULE Spec2Model ----
(***************************************************************************)
(* Booking conflict resolver and query-result cache of the rental site.    *)
(*                                                                         *)
(* Time is counted in hours since an arbitrary local midnight; a calendar  *)
(* day is HoursPerDay hours.  Date strings of a request body are records   *)
(* [kind, t]: "iso" is a string z.string().datetime() accepts, "loose" is  *)
(* a string it refuses but new Date() parses (e.g. a date without time),   *)
(* "garbage" is a string new Date() turns into an invalid date (NaN).      *)
(***************************************************************************)
EXTENDS Integers, Sequences, FiniteSets, TLC

VARIABLES
  bookings,   \* the booking collection: a set of booking documents
  nextId,     \* the id the database gives the next created booking
  now,        \* the wall clock, in hours
  cache,      \* InMemoryCache.cache: key -> entry
  last,       \* the most recent request handled and its response
  inflight,   \* the POST /api/bookings handlers suspended at an await
  users,      \* the user collection: a set of user documents
  otpTokens,  \* the otpToken collection: a set of token documents
  rateLimitStore  \* InMemoryRateLimitStore.store: key -> entry

\* the collections of the authentication routes and the rate limiter's map
authState == <<users, otpTokens, rateLimitStore>>

vars == <<bookings, nextId, now, cache, last, inflight, authState>>

\* no user, no token, no rate-limit entry
NoAuthState ==
  /\ users = {}
  /\ otpTokens = {}
  /\ rateLimitStore = <<>>

(***************************** bounds and samples **************************)

MaxBookings == 2

HoursPerDay == 24
MsPerHour == 3600000
CancelWindowHours == 24
CacheMediumMs == 1800000
PageLimit == 12

None == "none"
NaN == -1

Users == {"u1", "u2"}
Bookers == {"u1"}
Admin == "admin"

\* instants a request may name: 00:00 and 01:00 of three consecutive days
Instants == {0, 1, 24, 25, 48, 49}
\* values the clock takes: 01:00 of one day, 00:00 and 01:00 of the next
ClockValues == {1, 24, 25}

(******************************* resources *********************************)

\* rows of the equipment collection (id "e9" matches no row)
equipment ==
  [e1 |-> [available |-> TRUE,  price |-> 100, priceType |-> "DAILY"],
   e2 |-> [available |-> FALSE, price |-> 100, priceType |-> "DAILY"]]

\* rows of the brokerage collection
brokerage ==
  [b1 |-> [available |-> TRUE, price |-> 10, priceType |-> "HOURLY"]]

EquipmentIds == {"e1", "e2", "e9"}
BrokerageIds == {"b1"}

ActiveStatuses == {"PENDING", "CONFIRMED"}
Statuses == {"PENDING", "CONFIRMED", "COMPLETED"}

(******************************* dates *************************************)

IsoDate(t) == [kind |-> "iso", t |-> t]
LooseDate(t) == [kind |-> "loose", t |-> t]
GarbageDate == [kind |-> "garbage", t |-> 0]

\* z.string().datetime(): only ISO-8601 UTC date-times pass
IsDatetime(s) == s.kind = "iso"

\* new Date(string).getTime(): NaN for a string that is no date
ParseDate(s) == IF s.kind = "garbage" THEN NaN ELSE s.t

\* JavaScript relational operators on Date values: false when either is NaN
DateGt(a, b) == a # NaN /\ b # NaN /\ a > b
DateGe(a, b) == a # NaN /\ b # NaN /\ a >= b
DateLt(a, b) == a # NaN /\ b # NaN /\ a < b
DateLe(a, b) == a # NaN /\ b # NaN /\ a <= b

\* new Date(d.getFullYear(), d.getMonth(), d.getDate()): local midnight of d
StartOfDay(t) == IF t = NaN THEN NaN ELSE (t \div HoursPerDay) * HoursPerDay

DayOf(t) == t \div HoursPerDay

(***************************** request bodies ******************************)

\* calculateTotalPrice of the detail page: the price the site's own client sends
CeilDiv(a, b) == (a + b - 1) \div b

calculateTotalPrice(item, startDate, endDate) ==
  LET diffTime == IF endDate >= startDate THEN endDate - startDate
                  ELSE startDate - endDate
      diffDays == CeilDiv(diffTime, HoursPerDay)
  IN CASE item.priceType = "HOURLY"  -> diffDays * 24 * item.price
       [] item.priceType = "DAILY"   -> diffDays * item.price
       [] item.priceType = "WEEKLY"  -> CeilDiv(diffDays, 7) * item.price
       [] item.priceType = "MONTHLY" -> CeilDiv(diffDays, 30) * item.price
       [] item.priceType = "FIXED"   -> item.price
       [] OTHER                      -> diffDays * item.price

\* the row a body's resource reference names, when there is one
HasItem(body) ==
  \/ body.equipmentId \in DOMAIN equipment
  \/ body.equipmentId = None /\ body.brokerageId \in DOMAIN brokerage

ItemOf(body) ==
  IF body.equipmentId \in DOMAIN equipment THEN equipment[body.equipmentId]
  ELSE brokerage[body.brokerageId]

\* handleBooking: the body the detail page posts for an item and two dates
ClientBody(equipmentId, brokerageId, startDate, endDate) ==
  LET ref == [equipmentId |-> equipmentId, brokerageId |-> brokerageId]
  IN [equipmentId |-> equipmentId, brokerageId |-> brokerageId,
      startDate |-> startDate, endDate |-> endDate,
      totalPrice |-> IF HasItem(ref) /\ ParseDate(startDate) # NaN
                        /\ ParseDate(endDate) # NaN
                     THEN calculateTotalPrice(ItemOf(ref), ParseDate(startDate),
                                              ParseDate(endDate))
                     ELSE 1]

(***************************** schema validation ***************************)

Issue(field, message) == [field |-> field, message |-> message]

\* the issue a check adds when its condition fails
Check(ok, field, message) == IF ok THEN <<>> ELSE <<Issue(field, message)>>

EitherResourceRefine(data) == data.equipmentId # None \/ data.brokerageId # None

\* a refinement that repeats the one before it
NotNeitherResourceRefine(data) == data.equipmentId # None \/ data.brokerageId # None

NotBothResourcesRefine(data) == ~(data.equipmentId # None /\ data.brokerageId # None)

\* a refinement that lets a zero-length range through
EndNotBeforeStartRefine(data) ==
  DateGe(ParseDate(data.endDate), ParseDate(data.startDate))

EndAfterStartRefine(data) ==
  DateGt(ParseDate(data.endDate), ParseDate(data.startDate))

\* a refinement that compares the start with the current instant
StartNotBeforeNowRefine(data, clock) ==
  DateGe(ParseDate(data.startDate), clock)

StartNotPastRefine(data, clock) ==
  DateGe(ParseDate(data.startDate), StartOfDay(clock))

\* bookingCreateSchema.parse: the object's fields in shape order, then the four
\* refinements in the order they are chained; a failed string check or
\* refinement does not stop the later ones
bookingCreateSchema(data, clock) ==
     Check(IsDatetime(data.startDate), "startDate", "Invalid start date format")
  \o Check(IsDatetime(data.endDate), "endDate", "Invalid end date format")
  \o Check(data.totalPrice > 0, "totalPrice", "Price must be positive")
  \o Check(EitherResourceRefine(data), "equipmentId",
           "Either equipmentId or brokerageId is required")
  \o Check(NotBothResourcesRefine(data), "brokerageId",
           "Cannot book both equipment and brokerage in the same booking")
  \o Check(EndAfterStartRefine(data), "endDate",
           "End date must be after start date")
  \o Check(StartNotPastRefine(data, clock), "startDate",
           "Start date cannot be in the past")

NoErrors == [f \in {} |-> ""]

\* createErrorResponse: errors.reduce((acc, e) => acc[e.field] = [e.message]):
\* a later issue of a field replaces the earlier one
ErrorsByField(issues) ==
  [f \in {issues[i].field : i \in DOMAIN issues} |->
     LET lastIx == CHOOSE i \in DOMAIN issues :
                     /\ issues[i].field = f
                     /\ \A j \in DOMAIN issues : issues[j].field = f => j <= i
     IN issues[lastIx].message]

createErrorResponse(message, statusCode, issues) ==
  [status |-> statusCode, message |-> message, errors |-> ErrorsByField(issues)]

createSuccessResponse(message, statusCode) ==
  [status |-> statusCode, message |-> message, errors |-> NoErrors]

\* validateRequest + handleApiError for a ValidationAppError
ValidationResponse(issues) == createErrorResponse("Validation failed", 400, issues)

\* handleApiError for an AppError thrown by a handler
AppErrorResponse(message, statusCode) == createErrorResponse(message, statusCode, <<>>)

(***************************** the transaction body ************************)

PastMessage(clock) ==
  "Start date cannot be in the past. Please select day "
    \o ToString(DayOf(clock)) \o " or later."

\* lines 234-246: the date checks made inside the transaction
TxDateError(body, clock) ==
  LET startDate == ParseDate(body.startDate)
      endDate == ParseDate(body.endDate)
  IN IF DateLt(StartOfDay(startDate), StartOfDay(clock)) THEN PastMessage(clock)
     ELSE IF DateLe(endDate, startDate) THEN "End date must be after start date"
     ELSE None

\* tx.equipment.findUnique, and the test made on its result
EquipmentUnavailable(equipmentId) ==
  equipmentId \notin DOMAIN equipment \/ ~equipment[equipmentId].available

\* tx.brokerage.findUnique, and the test made on its result
BrokerageUnavailable(brokerageId) ==
  brokerageId \notin DOMAIN brokerage \/ ~brokerage[brokerageId].available

\* the where clause of tx.booking.findFirst: lte / gte on both ends
ConflictWhere(b, equipmentId, startDate, endDate) ==
  /\ b.equipmentId = equipmentId
  /\ b.status \in ActiveStatuses
  /\ b.startDate <= endDate
  /\ b.endDate >= startDate

conflictingBooking(store, equipmentId, startDate, endDate) ==
  \E b \in store : ConflictWhere(b, equipmentId, startDate, endDate)

\* lines 248-275: the equipment branch, given the bookings findFirst reads
EquipmentError(body, store) ==
  IF body.equipmentId = None THEN None
  ELSE IF EquipmentUnavailable(body.equipmentId) THEN "Equipment not available"
  ELSE IF conflictingBooking(store, body.equipmentId, ParseDate(body.startDate),
                             ParseDate(body.endDate))
       THEN "Equipment is already booked for the selected dates"
  ELSE None

\* lines 277-308: the brokerage branch; it makes no conflict query
BrokerageError(body) ==
  IF body.brokerageId = None THEN None
  ELSE IF BrokerageUnavailable(body.brokerageId) THEN "Brokerage not available"
  ELSE None

\* the message of the first AppError the transaction body throws, or None
TxError(body, clock, store) ==
  LET dateError == TxDateError(body, clock)
      equipmentError == EquipmentError(body, store)
  IN IF dateError # None THEN dateError
     ELSE IF equipmentError # None THEN equipmentError
     ELSE BrokerageError(body)

\* lines 310-325: the document tx.booking.create inserts
bookingData(id, userId, body) ==
  [id |-> id, userId |-> userId,
   equipmentId |-> body.equipmentId, brokerageId |-> body.brokerageId,
   startDate |-> ParseDate(body.startDate), endDate |-> ParseDate(body.endDate),
   status |-> "PENDING", totalPrice |-> body.totalPrice]

(********************************* the cache *******************************)

NoExpiry == -1
DefaultMaxSize == 1000

DateNow(clock) == clock * MsPerHour

\* a test that only finds the pattern at the start of the string
StartsWith(s, p) == Len(p) <= Len(s) /\ SubSeq(s, 1, Len(p)) = p

\* String.prototype.includes
Includes(s, p) ==
  \E i \in 1..(Len(s) - Len(p) + 1) : SubSeq(s, i, i + Len(p) - 1) = p

CacheKeysOf(c) == {c[i].key : i \in DOMAIN c}
CacheIndex(c, key) == CHOOSE i \in DOMAIN c : c[i].key = key

\* an expiry test that also turns away an entry at the instant it expires
IsExpiredAtExpiry(entry, t) ==
  entry.expiresAt # NoExpiry /\ entry.expiresAt # 0 /\ entry.expiresAt <= t

\* entry.expiresAt && entry.expiresAt < Date.now()
IsExpired(entry, t) ==
  entry.expiresAt # NoExpiry /\ entry.expiresAt # 0 /\ entry.expiresAt < t

RemoveAt(c, i) == SubSeq(c, 1, i - 1) \o SubSeq(c, i + 1, Len(c))

\* InMemoryCache.delete
cacheDelete(c, key) ==
  IF key \in CacheKeysOf(c) THEN RemoveAt(c, CacheIndex(c, key)) ELSE c

\* InMemoryCache.get: whether it hits, and the map it leaves
cacheGetHits(c, key, t) ==
  key \in CacheKeysOf(c) /\ ~IsExpired(c[CacheIndex(c, key)], t)

cacheGetValue(c, key) == c[CacheIndex(c, key)].value

cacheAfterGet(c, key, t) ==
  IF key \notin CacheKeysOf(c) THEN c
  ELSE IF IsExpired(c[CacheIndex(c, key)], t) THEN cacheDelete(c, key)
  ELSE [c EXCEPT ![CacheIndex(c, key)].lastAccessed = t]

\* InMemoryCache.evictLRU: the first entry, in insertion order, whose
\* lastAccessed is the least and is before now
evictLRU(c, maxSize, t) ==
  IF Len(c) < maxSize THEN c
  ELSE LET older == {i \in DOMAIN c : c[i].lastAccessed < t}
       IN IF older = {} THEN c
          ELSE LET oldest == CHOOSE i \in older :
                     \A j \in older :
                        \/ c[i].lastAccessed < c[j].lastAccessed
                        \/ c[i].lastAccessed = c[j].lastAccessed /\ i <= j
               IN RemoveAt(c, oldest)

\* InMemoryCache.set; ttl 0 stands for an omitted (or zero) ttl
cacheSet(c, maxSize, key, value, ttl, t) ==
  LET evicted == evictLRU(c, maxSize, t)
      entry == [key |-> key, value |-> value, createdAt |-> t, lastAccessed |-> t,
                expiresAt |-> IF ttl # 0 THEN t + ttl ELSE NoExpiry]
  IN IF key \in CacheKeysOf(evicted)
     THEN [evicted EXCEPT ![CacheIndex(evicted, key)] = entry]
     ELSE Append(evicted, entry)

\* InMemoryCache.has: its answer, and the map it leaves
cacheHas(c, key, t) ==
  key \in CacheKeysOf(c) /\ ~IsExpired(c[CacheIndex(c, key)], t)

\* a has that touches the entry as get does
cacheAfterHasTouching(c, key, t) == cacheAfterGet(c, key, t)

cacheAfterHas(c, key, t) ==
  IF key \in CacheKeysOf(c) /\ IsExpired(c[CacheIndex(c, key)], t)
  THEN cacheDelete(c, key) ELSE c

\* InMemoryCache.clear
cacheClear == <<>>

\* a sweep that keeps only the entries with an expiry still ahead
cleanupUnlessExpiring(c, t) ==
  LET Live(e) == e.expiresAt # NoExpiry /\ e.expiresAt >= t IN SelectSeq(c, Live)

\* InMemoryCache.cleanup, the sweep the constructor schedules
cleanup(c, t) ==
  LET Live(e) == ~IsExpired(e, t) IN SelectSeq(c, Live)

\* cacheUtils.invalidatePattern: the count it returns
invalidatePatternCount(c, pattern) ==
  Cardinality({i \in DOMAIN c : Includes(c[i].key, pattern)})

\* cacheUtils.invalidatePattern: the map it leaves
invalidatePattern(c, pattern) ==
  LET Keep(e) == ~Includes(e.key, pattern) IN SelectSeq(c, Keep)

\* a value fn resolves to: null, or anything else
JsNull == [isNull |-> TRUE]
JsValue(data) == [isNull |-> FALSE, data |-> data]

\* withCache: cacheUtils.get(key) !== null
withCacheHits(c, key, t) ==
  cacheGetHits(c, key, t) /\ ~cacheGetValue(c, key).isNull

\* withCache: the map after a call that computes `fresh` on a miss
withCacheAfter(c, key, fresh, ttl, t) ==
  IF withCacheHits(c, key, t) THEN cacheAfterGet(c, key, t)
  ELSE cacheSet(cacheAfterGet(c, key, t), DefaultMaxSize, key, fresh, ttl, t)

withCacheResult(c, key, fresh, t) ==
  IF withCacheHits(c, key, t) THEN cacheGetValue(c, key) ELSE fresh

\* CacheKeys.bookingsList({page, limit, userId}): entries sorted by name
bookingsListKey(page, limit, userId) ==
  "bookings:list:" \o "limit:" \o ToString(limit) \o "|page:" \o ToString(page)
    \o "|userId:" \o userId

\* CacheKeys.dashboardStats()
dashboardStatsKey == "stats:dashboard:month"

(******************************* request samples ***************************)

Clients == {"c1", "c2"}

Idle == [pc |-> "idle"]

\* resource references of well-formed bodies: bookable equipment, a brokerage
BookableRefs == {<<"e1", None>>, <<None, "b1">>}

\* every reference: existing, unavailable (e2), unknown (e9), none and both
AllRefs == (EquipmentIds \cup {None}) \X (BrokerageIds \cup {None})

IsoDates(instants) == {IsoDate(t) : t \in instants}
DateStrings == IsoDates(Instants) \cup {LooseDate(24), LooseDate(48), GarbageDate}

\* bodies as the detail page builds them, with its own price
ClientBodies(refs, dates) ==
  {ClientBody(r[1], r[2], s, e) : r \in refs, s \in dates, e \in dates}

\* the same bodies sent by some other client, with a price of its choosing
ForeignBodies(refs, dates) ==
  {[b EXCEPT !.totalPrice = 1] : b \in ClientBodies(refs, dates)}

AllBodies == ClientBodies(AllRefs, DateStrings) \cup ForeignBodies(AllRefs, DateStrings)

\* the ranges of the atomic specification: a day from 24, an hour from 48, an
\* hour from 49, and a range that ends before it starts
SpecRanges == {<<24, 48>>, <<48, 49>>, <<49, 50>>, <<49, 48>>}
SpecBodies ==
  {ClientBody(r[1], r[2], IsoDate(iv[1]), IsoDate(iv[2])) :
     r \in BookableRefs, iv \in SpecRanges}

BookingIds == 1..MaxBookings

(**************************** atomic handlers ******************************)

Init ==
  /\ bookings = {}
  /\ nextId = 1
  /\ now = 24
  /\ cache = <<>>
  /\ last = [op |-> "INIT"]
  /\ inflight = [c \in Clients |-> Idle]
  /\ NoAuthState

\* lines 354-356 of the POST handler
InvalidateAfterCreate(c) ==
  invalidatePattern(invalidatePattern(c, "booking:list"), "stats:")

\* the response of POST /api/bookings when nothing runs in between
CreateResponse(body, clock, store) ==
  LET issues == bookingCreateSchema(body, clock)
      txError == TxError(body, clock, store)
  IN IF issues # <<>> THEN ValidationResponse(issues)
     ELSE IF txError # None THEN AppErrorResponse(txError, 400)
     ELSE createSuccessResponse("Booking created successfully", 201)

\* POST /api/bookings, run without another request in between
CreateBooking(user, body) ==
  LET resp == CreateResponse(body, now, bookings) IN
  /\ resp.status = 201 => nextId <= MaxBookings
  /\ bookings' = IF resp.status = 201
                 THEN bookings \cup {bookingData(nextId, user, body)}
                 ELSE bookings
  /\ nextId' = IF resp.status = 201 THEN nextId + 1 ELSE nextId
  /\ cache' = IF resp.status = 201 THEN InvalidateAfterCreate(cache) ELSE cache
  /\ last' = [op |-> "POST", resp |-> resp]
  /\ UNCHANGED <<now, inflight, authState>>

\* a window test that also turns away a start exactly 24 hours ahead
MoreThanCancelWindow(startDate, clock) ==
  startDate * MsPerHour - clock * MsPerHour > CancelWindowHours * MsPerHour

\* canCancelBooking / lines 76-86: at least 24 hours before the start
OutsideCancelWindow(startDate, clock) ==
  LET timeDiff == startDate * MsPerHour - clock * MsPerHour
  IN ~(timeDiff < CancelWindowHours * MsPerHour)

CancelResponse(store, user, id, clock) ==
  IF ~\E b \in store : b.id = id
  THEN AppErrorResponse("Booking not found", 404)
  ELSE LET b == CHOOSE b \in store : b.id = id
       IN IF b.userId # user THEN AppErrorResponse("Forbidden", 403)
          ELSE IF b.status \notin ActiveStatuses
               THEN AppErrorResponse("Cannot cancel this booking", 400)
          ELSE IF ~OutsideCancelWindow(b.startDate, clock)
               THEN AppErrorResponse(
                      "Cannot cancel booking within 24 hours of start time", 400)
          ELSE createSuccessResponse("Booking cancelled and removed successfully", 200)

\* PUT /api/bookings/[id] with action 'cancel'
CancelBooking(user, id) ==
  LET resp == CancelResponse(bookings, user, id, now)
  IN /\ bookings' = IF resp.status = 200 THEN {b \in bookings : b.id # id}
                    ELSE bookings
     /\ last' = [op |-> "CANCEL", resp |-> resp]
     /\ UNCHANGED <<nextId, now, cache, inflight, authState>>

\* PUT /api/admin/bookings: prisma.booking.update sets the status given
AdminUpdateBooking(id, status) ==
  /\ bookings' = {IF b.id = id THEN [b EXCEPT !.status = status] ELSE b : b \in bookings}
  /\ last' = [op |-> "ADMIN_PUT",
              resp |-> IF \E b \in bookings : b.id = id
                       THEN createSuccessResponse("", 200)
                       ELSE AppErrorResponse("Internal server error", 500)]
  /\ UNCHANGED <<nextId, now, cache, inflight, authState>>

AdminDeleteResponse(store, id) ==
  IF ~\E b \in store : b.id = id THEN AppErrorResponse("Booking not found", 404)
  ELSE IF (CHOOSE b \in store : b.id = id).status # "COMPLETED"
       THEN AppErrorResponse("Only completed bookings can be deleted", 400)
  ELSE createSuccessResponse("Booking deleted successfully", 200)

\* DELETE /api/admin/bookings
AdminDeleteBooking(id) ==
  LET resp == AdminDeleteResponse(bookings, id)
  IN /\ bookings' = IF resp.status = 200 THEN {b \in bookings : b.id # id}
                    ELSE bookings
     /\ last' = [op |-> "ADMIN_DELETE", resp |-> resp]
     /\ UNCHANGED <<nextId, now, cache, inflight, authState>>

\* DELETE /api/bookings/[id] by an admin: prisma.booking.delete, whatever the
\* status; deleting a missing record throws and is answered 500
DeleteBooking(id) ==
  /\ bookings' = {b \in bookings : b.id # id}
  /\ last' = [op |-> "DELETE",
              resp |-> IF \E b \in bookings : b.id = id
                       THEN createSuccessResponse("Booking deleted successfully", 200)
                       ELSE AppErrorResponse("Internal server error", 500)]
  /\ UNCHANGED <<nextId, now, cache, inflight, authState>>

\* time passes
Tick ==
  /\ \E t \in ClockValues : t > now /\ now' = t
  /\ last' = [op |-> "TICK"]
  /\ UNCHANGED <<bookings, nextId, cache, inflight, authState>>

Next ==
  \/ \E u \in Bookers, body \in SpecBodies : CreateBooking(u, body)
  \/ \E u \in Users, id \in BookingIds : CancelBooking(u, id)
  \/ \E id \in BookingIds, st \in Statuses : AdminUpdateBooking(id, st)
  \/ \E id \in BookingIds : AdminDeleteBooking(id)
  \/ \E id \in BookingIds : DeleteBooking(id)
  \/ Tick

Spec == Init /\ [][Next]_vars

(******************* POST /api/bookings, one await at a time ****************)

NoResponse == [status |-> 0, message |-> "", errors |-> NoErrors]

Received(user, body) ==
  [pc |-> "received", user |-> user, body |-> body, resp |-> NoResponse]

Done(frame, resp) == [frame EXCEPT !.pc = "done", !.resp = resp]

\* lines 204-213: validateRequest(schemas.bookingCreate, body)
PostValidate(c) ==
  LET frame == inflight[c]
      issues == bookingCreateSchema(frame.body, now)
  IN /\ frame.pc = "received"
     /\ IF issues # <<>>
        THEN /\ inflight' = [inflight EXCEPT ![c] = Done(frame, ValidationResponse(issues))]
             /\ last' = [op |-> "POST", resp |-> ValidationResponse(issues)]
        ELSE /\ inflight' = [inflight EXCEPT ![c].pc = "tx"]
             /\ UNCHANGED last
     /\ UNCHANGED <<bookings, nextId, now, cache, authState>>

\* what the transaction body throws before its conflict query, or None
TxBeginError(body, clock) ==
  LET dateError == TxDateError(body, clock)
  IN IF dateError # None THEN dateError
     ELSE IF body.equipmentId # None
     THEN (IF EquipmentUnavailable(body.equipmentId)
           THEN "Equipment not available" ELSE None)
     ELSE BrokerageError(body)

\* lines 230-256 and 277-308: the transaction body up to its conflict query
PostTxBegin(c) ==
  LET frame == inflight[c]
      error == TxBeginError(frame.body, now)
  IN /\ frame.pc = "tx"
     /\ IF error # None
        THEN /\ inflight' = [inflight EXCEPT ![c] = Done(frame, AppErrorResponse(error, 400))]
             /\ last' = [op |-> "POST", resp |-> AppErrorResponse(error, 400)]
        ELSE /\ inflight' = [inflight EXCEPT ![c].pc =
                               IF frame.body.equipmentId # None THEN "findFirst"
                               ELSE "create"]
             /\ UNCHANGED last
     /\ UNCHANGED <<bookings, nextId, now, cache, authState>>

\* a conflict query made after the insert and the invalidations
PostFindConflictAfterWrite(c) ==
  LET frame == inflight[c]
      error == IF EquipmentError(frame.body, bookings) # None
               THEN EquipmentError(frame.body, bookings)
               ELSE BrokerageError(frame.body)
  IN /\ frame.pc = "findFirst"
     /\ IF error # None
        THEN /\ inflight' = [inflight EXCEPT ![c] = Done(frame, AppErrorResponse(error, 400))]
             /\ last' = [op |-> "POST", resp |-> AppErrorResponse(error, 400)]
             /\ bookings' = bookings \cup {bookingData(nextId, frame.user, frame.body)}
             /\ cache' = InvalidateAfterCreate(cache)
        ELSE /\ inflight' = [inflight EXCEPT ![c].pc = "create"]
             /\ UNCHANGED <<last, bookings, cache>>
     /\ UNCHANGED <<nextId, now, authState>>

\* lines 258-275: tx.booking.findFirst on the bookings stored at this moment
PostFindConflict(c) ==
  LET frame == inflight[c]
      error == IF EquipmentError(frame.body, bookings) # None
               THEN EquipmentError(frame.body, bookings)
               ELSE BrokerageError(frame.body)
  IN /\ frame.pc = "findFirst"
     /\ IF error # None
        THEN /\ inflight' = [inflight EXCEPT ![c] = Done(frame, AppErrorResponse(error, 400))]
             /\ last' = [op |-> "POST", resp |-> AppErrorResponse(error, 400)]
        ELSE /\ inflight' = [inflight EXCEPT ![c].pc = "create"]
             /\ UNCHANGED last
     /\ UNCHANGED <<bookings, nextId, now, cache, authState>>

\* lines 310-352: tx.booking.create, and the transaction commits
PostCreate(c) ==
  LET frame == inflight[c]
  IN /\ frame.pc = "create"
     /\ nextId <= MaxBookings
     /\ bookings' = bookings \cup {bookingData(nextId, frame.user, frame.body)}
     /\ nextId' = nextId + 1
     /\ inflight' = [inflight EXCEPT ![c].pc = "committed"]
     /\ UNCHANGED <<now, cache, last, authState>>

\* lines 354-365: the invalidations, then the 201 response
PostRespond(c) ==
  LET frame == inflight[c]
      resp == createSuccessResponse("Booking created successfully", 201)
  IN /\ frame.pc = "committed"
     /\ cache' = InvalidateAfterCreate(cache)
     /\ inflight' = [inflight EXCEPT ![c] = Done(frame, resp)]
     /\ last' = [op |-> "POST", resp |-> resp]
     /\ UNCHANGED <<bookings, nextId, now, authState>>

PostStep ==
  \/ \E c \in Clients : PostValidate(c)
  \/ \E c \in Clients : PostTxBegin(c)
  \/ \E c \in Clients : PostFindConflict(c)
  \/ \E c \in Clients : PostCreate(c)
  \/ \E c \in Clients : PostRespond(c)

\* a booking another request left in the collection earlier
StoredBooking(ref, startDate, endDate, status) ==
  [bookingData(1, "u1", ClientBody(ref[1], ref[2], IsoDate(startDate), IsoDate(endDate)))
     EXCEPT !.status = status]

SampleStores ==
  {{}} \cup {{StoredBooking(ref, iv[1], iv[2], st)} :
               ref \in BookableRefs, iv \in {<<24, 48>>, <<48, 49>>}, st \in Statuses}

\* one request of any shape against a collection holding at most one booking
PostInit ==
  /\ bookings \in SampleStores
  /\ nextId = 2
  /\ now \in ClockValues
  /\ cache = <<>>
  /\ last = [op |-> "INIT"]
  /\ \E body \in AllBodies :
       inflight = [c \in Clients |-> IF c = "c1" THEN Received("u1", body) ELSE Idle]
  /\ NoAuthState

PostNext == PostStep \/ Tick

PostSpec == PostInit /\ [][PostNext]_vars

\* the bodies of two requests that race for equipment e1, today and tomorrow
ConcBodies == ClientBodies({<<"e1", None>>}, IsoDates({24, 48, 49}))

ConcInit ==
  /\ bookings = {}
  /\ nextId = 1
  /\ now = 24
  /\ cache = <<>>
  /\ last = [op |-> "INIT"]
  /\ \E b1 \in ConcBodies, b2 \in ConcBodies :
       inflight = [c \in Clients |-> IF c = "c1" THEN Received("u1", b1)
                                     ELSE Received("u2", b2)]
  /\ NoAuthState

ConcSpec == ConcInit /\ [][PostStep]_vars

(************************ cached reads next to creations ********************)

\* getCachedBookingList's fetcher: findMany with where.userId when not admin
bookingList(store, userId) ==
  IF userId = "undefined" THEN store ELSE {b \in store : b.userId = userId}

\* GET /api/bookings, page 1, no filter
ListBookings(user) ==
  LET effectiveUserId == IF user = Admin THEN "undefined" ELSE user
      key == bookingsListKey(1, PageLimit, effectiveUserId)
      fresh == JsValue(bookingList(bookings, effectiveUserId))
  IN /\ cache' = withCacheAfter(cache, key, fresh, CacheMediumMs, DateNow(now))
     /\ last' = [op |-> "LIST",
                 resp |-> [status |-> 200,
                           data |-> withCacheResult(cache, key, fresh, DateNow(now))]]
     /\ UNCHANGED <<bookings, nextId, now, inflight, authState>>

\* getCachedDashboardStats's fetcher, reduced to the booking counts
dashboardStats(store) ==
  [totalBookings |-> Cardinality(store),
   pendingBookings |-> Cardinality({b \in store : b.status = "PENDING"})]

\* GET /api/admin/dashboard
GetDashboard ==
  LET fresh == JsValue(dashboardStats(bookings))
  IN /\ cache' = withCacheAfter(cache, dashboardStatsKey, fresh, CacheMediumMs,
                                DateNow(now))
     /\ last' = [op |-> "STATS",
                 resp |-> [status |-> 200,
                           data |-> withCacheResult(cache, dashboardStatsKey, fresh,
                                                    DateNow(now))]]
     /\ UNCHANGED <<bookings, nextId, now, inflight, authState>>

FreshBodies == ClientBodies({<<"e1", None>>}, IsoDates({24, 48, 49}))

FreshNext ==
  \/ \E u \in Bookers, body \in FreshBodies : CreateBooking(u, body)
  \/ \E u \in Bookers, id \in BookingIds : CancelBooking(u, id)
  \/ \E u \in Bookers \cup {Admin} : ListBookings(u)
  \/ GetDashboard
  \/ Tick

FreshSpec == Init /\ [][FreshNext]_vars

(************************ one InMemoryCache on its own **********************)

\* new InMemoryCache(Capacity)
Capacity == 2
\* the hours the clock of this specification shows
CacheClockValues == {1, 2, 3}

CacheKeyNames == {"k1", "k2", "k3"}
CacheValues == {"v1", "v2"}
\* ttl arguments, in ms: negative, zero (also a call that omits the ttl), an hour
TtlValues == {0 - CacheMediumMs, 0, MsPerHour}

\* the set calls made: k1 with every value and ttl, k2 without a ttl or with an
\* hour, k3 without a ttl
SetCalls ==
  ({"k1"} \X CacheValues \X TtlValues)
    \cup ({"k2"} \X {"v1"} \X {0, MsPerHour})
    \cup ({"k3"} \X {"v1"} \X {0})

CacheInit ==
  /\ bookings = {}
  /\ nextId = 1
  /\ now = 1
  /\ cache = <<>>
  /\ last = [op |-> "INIT"]
  /\ inflight = [c \in Clients |-> Idle]
  /\ NoAuthState

\* cache.set(key, value, ttl)
SetEntry(key, value, ttl) ==
  /\ cache' = cacheSet(cache, Capacity, key, value, ttl, DateNow(now))
  /\ last' = [op |-> "SET"]
  /\ UNCHANGED <<bookings, nextId, now, inflight, authState>>

\* cache.get(key)
GetEntry(key) ==
  /\ cache' = cacheAfterGet(cache, key, DateNow(now))
  /\ last' = IF cacheGetHits(cache, key, DateNow(now))
             THEN [op |-> "GET", hit |-> TRUE,
                   value |-> cacheGetValue(cache, key)]
             ELSE [op |-> "GET", hit |-> FALSE]
  /\ UNCHANGED <<bookings, nextId, now, inflight, authState>>

\* cache.has(key)
HasEntry(key) ==
  /\ cache' = cacheAfterHas(cache, key, DateNow(now))
  /\ last' = [op |-> "HAS", hit |-> cacheHas(cache, key, DateNow(now))]
  /\ UNCHANGED <<bookings, nextId, now, inflight, authState>>

\* cache.delete(key)
DeleteEntry(key) ==
  /\ cache' = cacheDelete(cache, key)
  /\ last' = [op |-> "DELETE"]
  /\ UNCHANGED <<bookings, nextId, now, inflight, authState>>

\* cache.clear()
ClearCache ==
  /\ cache' = cacheClear
  /\ last' = [op |-> "CLEAR"]
  /\ UNCHANGED <<bookings, nextId, now, inflight, authState>>

\* cacheUtils.invalidatePattern(pattern)
InvalidateKeys(pattern) ==
  /\ cache' = invalidatePattern(cache, pattern)
  /\ last' = [op |-> "INVALIDATE", count |-> invalidatePatternCount(cache, pattern)]
  /\ UNCHANGED <<bookings, nextId, now, inflight, authState>>

\* the sweep fires
Cleanup ==
  /\ cache' = cleanup(cache, DateNow(now))
  /\ last' = [op |-> "CLEANUP",
              removedCount |-> Len(cache) - Len(cleanup(cache, DateNow(now)))]
  /\ UNCHANGED <<bookings, nextId, now, inflight, authState>>

\* an hour passes
Elapse ==
  /\ now + 1 \in CacheClockValues
  /\ now' = now + 1
  /\ last' = [op |-> "TICK"]
  /\ UNCHANGED <<bookings, nextId, cache, inflight, authState>>

\* patterns given to invalidatePattern: a whole key, the start of every key,
\* the end of one key, and a pattern that would match k1 as a regular expression
Patterns == {"k1", "k", "2", ".1"}

CacheNext ==
  \/ \E call \in SetCalls : SetEntry(call[1], call[2], call[3])
  \/ \E k \in CacheKeyNames : GetEntry(k)
  \/ \E k \in CacheKeyNames : HasEntry(k)
  \/ \E k \in CacheKeyNames : DeleteEntry(k)
  \/ ClearCache
  \/ \E p \in Patterns : InvalidateKeys(p)
  \/ Cleanup
  \/ Elapse

CacheSpec == CacheInit /\ [][CacheNext]_vars

(***************************** a wrapped function ***************************)

\* what fn can resolve to
FnResults == {JsValue("r1"), JsValue("r2"), JsNull}

\* the ttl each wrapper was built with
WrapperTtl(key) == IF key = "k1" THEN MsPerHour ELSE CacheMediumMs

\* a call of withCache(fn, keyGenerator, ttl)(...args) whose arguments give
\* `key`, fn resolving to `result` if it is invoked
CachedCall(key, result) ==
  LET t == DateNow(now)
  IN /\ cache' = withCacheAfter(cache, key, result, WrapperTtl(key), t)
     /\ last' = [op |-> "CALL",
                 invoked |-> IF withCacheHits(cache, key, t) THEN 0 ELSE 1,
                 value |-> withCacheResult(cache, key, result, t)]
     /\ UNCHANGED <<bookings, nextId, now, inflight, authState>>

WithCacheNext ==
  \/ \E k \in {"k1", "k2"}, r \in FnResults : CachedCall(k, r)
  \/ \E k \in {"k1", "k"} : InvalidateKeys(k)
  \/ Elapse

WithCacheSpec == CacheInit /\ [][WithCacheNext]_vars

(************************** dbUtils.transaction *****************************)

DefaultMaxRetries == 3

\* what one run of db.$transaction(fn) can end with: fn's result, an AppError
\* thrown by fn, a write conflict that aborts the transaction, a constraint
BusinessErrors ==
  {"Equipment not available", "Equipment is already booked for the selected dates"}
TransientErrors == {"Transaction failed due to a write conflict or a deadlock"}
ConstraintErrors == {"Unique constraint failed on the fields: (email)"}
AttemptOutcomes ==
  {"ok"} \cup BusinessErrors \cup TransientErrors \cup ConstraintErrors

\* the errors the catch block rethrows at once
NotRetried(message) ==
  \/ Includes(message, "Unique constraint")
  \/ Includes(message, "Foreign key constraint")
  \/ Includes(message, "Check constraint")

\* Math.min(1000 * Math.pow(2, attempt - 1), 5000)
BackoffDelay(attempt) ==
  IF 1000 * 2 ^ (attempt - 1) < 5000 THEN 1000 * 2 ^ (attempt - 1) ELSE 5000

\* a loop test that lets one more pass through
InLoopOnceMore(attempt, maxRetries) == attempt <= maxRetries + 1

\* the loop test: attempt <= maxRetries
InLoop(attempt, maxRetries) == attempt <= maxRetries

\* the maxRetries options of the calls made
RetryOptions == {1, 2, DefaultMaxRetries}

\* dbUtils.transaction(fn, {maxRetries}) entered: the loop starts at attempt 1
CallingWith(maxRetries) ==
  [pc |-> "attempt", attempt |-> 1, executed |-> 0, lastError |-> None,
   delay |-> 0, outcome |-> None, maxRetries |-> maxRetries]

\* dbUtils.transaction(fn) entered without options
Calling == CallingWith(DefaultMaxRetries)

TxnInit ==
  /\ bookings = {}
  /\ nextId = 1
  /\ now = 24
  /\ cache = <<>>
  /\ last = [op |-> "INIT"]
  /\ inflight \in [Clients -> {Calling} \cup {CallingWith(m) : m \in RetryOptions}]
  /\ NoAuthState

\* one pass of the loop body: await db.$transaction(fn), and the catch block
TxnAttempt(c, outcome) ==
  LET frame == inflight[c]
      ran == [frame EXCEPT !.executed = frame.executed + 1]
  IN /\ frame.pc = "attempt"
     /\ inflight' = [inflight EXCEPT ![c] =
          IF outcome = "ok"
          THEN [ran EXCEPT !.pc = "returned", !.outcome = "ok"]
          ELSE IF NotRetried(outcome)
          THEN [ran EXCEPT !.pc = "thrown", !.lastError = outcome, !.outcome = outcome]
          ELSE IF frame.attempt < frame.maxRetries
          THEN [ran EXCEPT !.pc = "backoff", !.lastError = outcome,
                           !.delay = BackoffDelay(frame.attempt)]
          ELSE IF InLoop(frame.attempt + 1, frame.maxRetries)
          THEN [ran EXCEPT !.lastError = outcome, !.attempt = frame.attempt + 1]
          ELSE [ran EXCEPT !.pc = "thrown", !.lastError = outcome, !.outcome = outcome,
                           !.attempt = frame.attempt + 1]]
     /\ UNCHANGED <<bookings, nextId, now, cache, last, authState>>

\* the backoff timer fires and the loop goes on to the next attempt
TxnBackoff(c) ==
  LET frame == inflight[c]
  IN /\ frame.pc = "backoff"
     /\ inflight' = [inflight EXCEPT ![c] =
          IF InLoop(frame.attempt + 1, frame.maxRetries)
          THEN [frame EXCEPT !.pc = "attempt", !.attempt = frame.attempt + 1]
          ELSE [frame EXCEPT !.pc = "thrown", !.outcome = frame.lastError,
                             !.attempt = frame.attempt + 1]]
     /\ UNCHANGED <<bookings, nextId, now, cache, last, authState>>

TxnNext ==
  \/ \E c \in Clients, outcome \in AttemptOutcomes : TxnAttempt(c, outcome)
  \/ \E c \in Clients : TxnBackoff(c)

TxnSpec == TxnInit /\ [][TxnNext]_vars

\* every awaited promise settles: db.$transaction within its timeout, the
\* backoff when its timer fires
TxnFairSpec == TxnSpec /\ \A c \in Clients : WF_vars(TxnBackoff(c))
                                           /\ WF_vars(\E o \in AttemptOutcomes : TxnAttempt(c, o))

(******************************* sendOtpEmail *******************************)

SendTimeoutMs == 30000
MaxAttempts == 3

\* what transporter.sendMail settles with, and after how many ms
SendOutcomes ==
  { [result |-> "sent", ms |-> 1000],
    [result |-> "sent", ms |-> 45000],
    [result |-> "Invalid login: 535 authentication failed", ms |-> 1000],
    [result |-> "Unexpected socket close: connection lost", ms |-> 1000] }

\* Promise.race([sendMail, timer]): the one that settles first
sendWithTimeout(outcome) ==
  IF outcome.ms < SendTimeoutMs THEN outcome
  ELSE [result |-> "Email send timeout after 30 seconds", ms |-> SendTimeoutMs]

\* a backoff that starts at one second
EmailBackoffFromOneSecond(attempt) == 2 ^ (attempt - 1) * 1000

\* Math.pow(2, attempt) * 1000
EmailBackoffDelay(attempt) == 2 ^ attempt * 1000

\* the outer catch block's message for the error the loop ended with
FinalError(message) ==
  IF Includes(message, "timeout")
  THEN "Email service is currently slow. Please try again in a few minutes."
  ELSE IF Includes(message, "authentication") \/ Includes(message, "535")
  THEN "Email service configuration error. Please contact support."
  ELSE IF Includes(message, "connection")
  THEN "Unable to connect to email service. Please try again later."
  ELSE IF Includes(message, "verification")
  THEN "Email service is not properly configured. Please contact support."
  ELSE "Failed to send verification email. Please try again."

\* sendOtpEmail has prepared the mail and enters the loop
Sending ==
  [pc |-> "send", attempt |-> 1, sends |-> 0, longest |-> 0, delays |-> <<>>,
   resets |-> 0, lastError |-> None, outcome |-> None]

EmailInit ==
  /\ bookings = {}
  /\ nextId = 1
  /\ now = 24
  /\ cache = <<>>
  /\ last = [op |-> "INIT"]
  /\ inflight = [c \in Clients |-> Sending]
  /\ NoAuthState

\* one pass of the loop body up to the backoff: await sendWithTimeout(), and
\* the catch block with the transporter reset
EmailSend(c, outcome) ==
  LET frame == inflight[c]
      settled == sendWithTimeout(outcome)
      ran == [frame EXCEPT !.sends = frame.sends + 1,
                           !.longest = IF settled.ms > frame.longest
                                       THEN settled.ms ELSE frame.longest]
      message == settled.result
  IN /\ frame.pc = "send"
     /\ inflight' = [inflight EXCEPT ![c] =
          IF message = "sent"
          THEN [ran EXCEPT !.pc = "returned", !.outcome = "sent"]
          ELSE IF frame.attempt < MaxAttempts
          THEN [ran EXCEPT !.pc = "backoff", !.lastError = message,
                           !.resets = IF \/ Includes(message, "connection")
                                         \/ Includes(message, "timeout")
                                      THEN frame.resets + 1 ELSE frame.resets]
          ELSE IF frame.attempt + 1 <= MaxAttempts
          THEN [ran EXCEPT !.lastError = message, !.attempt = frame.attempt + 1]
          ELSE [ran EXCEPT !.pc = "thrown", !.lastError = message,
                           !.attempt = frame.attempt + 1,
                           !.outcome = FinalError(message)]]
     /\ UNCHANGED <<bookings, nextId, now, cache, last, authState>>

\* the backoff timer fires and the loop goes on to the next attempt
EmailBackoff(c) ==
  LET frame == inflight[c]
      waited == [frame EXCEPT !.delays = Append(frame.delays,
                                                EmailBackoffDelay(frame.attempt)),
                              !.attempt = frame.attempt + 1]
  IN /\ frame.pc = "backoff"
     /\ inflight' = [inflight EXCEPT ![c] =
          IF frame.attempt + 1 <= MaxAttempts
          THEN [waited EXCEPT !.pc = "send"]
          ELSE [waited EXCEPT !.pc = "thrown", !.outcome = FinalError(frame.lastError)]]
     /\ UNCHANGED <<bookings, nextId, now, cache, last, authState>>

EmailNext ==
  \/ \E c \in Clients, outcome \in SendOutcomes : EmailSend(c, outcome)
  \/ \E c \in Clients : EmailBackoff(c)

EmailSpec == EmailInit /\ [][EmailNext]_vars

(****************** a cached read, one await at a time **********************)

\* the wrapped reads: the dashboard statistics and the first page of u1's list
ReadTargets ==
  { [kind |-> "stats", key |-> dashboardStatsKey, userId |-> "undefined"],
    [kind |-> "list", key |-> bookingsListKey(1, PageLimit, "u1"), userId |-> "u1"] }

\* what fn resolves to when its queries run against store
fetchResult(target, store) ==
  IF target.kind = "stats" THEN JsValue(dashboardStats(store))
  ELSE JsValue(bookingList(store, target.userId))

\* withCache up to its await: the lookup, and on a miss the call of fn
ReadBegin(c, target) ==
  LET t == DateNow(now)
  IN /\ inflight[c] = Idle
     /\ cache' = cacheAfterGet(cache, target.key, t)
     /\ IF withCacheHits(cache, target.key, t)
        THEN /\ last' = [op |-> "READ", cached |-> TRUE,
                         data |-> cacheGetValue(cache, target.key)]
             /\ UNCHANGED inflight
        ELSE /\ inflight' = [inflight EXCEPT ![c] =
                               [pc |-> "fetching", target |-> target]]
             /\ last' = [op |-> "MISS"]
     /\ UNCHANGED <<bookings, nextId, now, authState>>

\* fn's queries run against the database
ReadFetch(c) ==
  /\ inflight[c].pc = "fetching"
  /\ inflight' = [inflight EXCEPT ![c] =
                    [pc |-> "fetched", target |-> inflight[c].target,
                     result |-> fetchResult(inflight[c].target, bookings)]]
  /\ last' = [op |-> "FETCH"]
  /\ UNCHANGED <<bookings, nextId, now, cache, authState>>

\* withCache after its await: cacheUtils.set(key, result, ttl) and the return
ReadStore(c) ==
  /\ inflight[c].pc = "fetched"
  /\ cache' = cacheSet(cache, DefaultMaxSize, inflight[c].target.key,
                       inflight[c].result, CacheMediumMs, DateNow(now))
  /\ last' = [op |-> "READ", cached |-> FALSE, data |-> inflight[c].result]
  /\ inflight' = [inflight EXCEPT ![c] = Idle]
  /\ UNCHANGED <<bookings, nextId, now, authState>>

RaceNext ==
  \/ \E u \in Bookers, body \in FreshBodies : CreateBooking(u, body)
  \/ \E c \in Clients, target \in ReadTargets : ReadBegin(c, target)
  \/ \E c \in Clients : ReadFetch(c)
  \/ \E c \in Clients : ReadStore(c)
  \/ Tick

RaceSpec == Init /\ [][RaceNext]_vars

(************** POST /api/bookings against a filled cache *******************)

\* the cache after GET /api/bookings by u1 and GET /api/admin/dashboard have
\* stored their results at t
WarmCache(store, t) ==
  cacheSet(cacheSet(<<>>, DefaultMaxSize, bookingsListKey(1, PageLimit, "u1"),
                    JsValue(bookingList(store, "u1")), CacheMediumMs, t),
           DefaultMaxSize, dashboardStatsKey, JsValue(dashboardStats(store)),
           CacheMediumMs, t)

\* bodies of every outcome: refused by the schema, by the date checks, by the
\* resource lookup, by the conflict query, and accepted
WarmBodies ==
  ClientBodies(AllRefs, IsoDates({1, 24, 48, 49}) \cup {GarbageDate})

WarmInit ==
  /\ bookings \in SampleStores
  /\ nextId = 2
  /\ now \in ClockValues
  /\ cache = WarmCache(bookings, DateNow(now))
  /\ last = [op |-> "INIT"]
  /\ \E body \in WarmBodies :
       inflight = [c \in Clients |-> IF c = "c1" THEN Received("u1", body) ELSE Idle]
  /\ NoAuthState

WarmSpec == WarmInit /\ [][PostNext]_vars

(********************** one-time codes and password reset *******************)

MaxTokens == 2
OtpLifetimeMs == 600000

\* mapOtpType
mapOtpType(type) ==
  IF type = "registration" THEN "REGISTRATION"
  ELSE IF type = "login" THEN "LOGIN"
  ELSE "PASSWORD_RESET"

OtpTypes == {"registration", "login", "reset"}

\* what generateOTP() can give
OtpCodes == {"111111", "222222"}

\* bcrypt.hash
hashPassword(password) == "bcrypt:" \o password

\* the one registered account, not yet verified
Account ==
  [id |-> "u1", email |-> "a@x.io", password |-> hashPassword("initial"),
   verified |-> FALSE]

\* the send-otp requests made: every type and code for the account, one whose
\* mail fails, one for an unknown email
SendCalls ==
  ({"a@x.io"} \X OtpTypes \X OtpCodes \X {"sent"})
    \cup {<<"a@x.io", "reset", "111111", "failed">>,
          <<"b@x.io", "reset", "111111", "sent">>}

\* the verify-otp requests made: every type for the account, an unknown email,
\* a five-digit code
VerifyCalls ==
  ({"a@x.io"} \X {"111111"} \X OtpTypes)
    \cup {<<"b@x.io", "111111", "login">>, <<"a@x.io", "12345", "login">>}

\* the reset-password requests made: two new passwords for the account, one
\* too short, an unknown email, a five-digit code
ResetCalls ==
  ({"a@x.io"} \X {"111111"} \X {"secret1", "secret2", "abc"})
    \cup {<<"b@x.io", "111111", "secret1">>, <<"a@x.io", "12345", "secret1">>}

\* prisma.user.findUnique({where: {email}})
UsersWithEmail(email) == {u \in users : u.email = email}
findUnique(email) == CHOOSE u \in UsersWithEmail(email) : TRUE

\* the where clause of prisma.otpToken.findFirst
ValidTokens(userId, otp, type, t) ==
  {k \in otpTokens : /\ k.userId = userId
                     /\ k.token = otp
                     /\ k.type = type
                     /\ k.expiresAt > t}

findFirst(userId, otp, type, t) ==
  CHOOSE k \in ValidTokens(userId, otp, type, t) :
    \A other \in ValidTokens(userId, otp, type, t) : k.id <= other.id

OtpResponse(frame, status, message) ==
  [frame EXCEPT !.pc = "done", !.status = status, !.message = message]

OtpLast(frame, status) ==
  [op |-> frame.route, type |-> frame.type, email |-> frame.email,
   otp |-> frame.otp, status |-> status]

OtpInit ==
  /\ bookings = {}
  /\ nextId = 1
  /\ now = 2
  /\ cache = <<>>
  /\ last = [op |-> "INIT"]
  /\ inflight = [c \in Clients |-> Idle]
  /\ users = {Account}
  /\ otpTokens = {}
  /\ rateLimitStore = <<>>

\* POST /api/auth/send-otp; mail is what sendOtpEmail ends with
SendOtpEffect(email, type, otp, mail) ==
  LET found == UsersWithEmail(email) # {}
      user == findUnique(email)
      refusal ==
        IF type \in {"login", "reset"} /\ ~found THEN 404
        ELSE IF type = "login" /\ ~user.verified THEN 400
        ELSE IF type = "registration" /\ ~found THEN 400
        ELSE 0
      kept == {k \in otpTokens : ~(k.userId = user.id /\ k.type = mapOtpType(type))}
      created == [id |-> nextId, userId |-> user.id, token |-> otp,
                  type |-> mapOtpType(type),
                  expiresAt |-> DateNow(now) + OtpLifetimeMs]
  IN /\ refusal = 0 => nextId <= MaxTokens
     /\ otpTokens' = IF refusal = 0 THEN kept \cup {created} ELSE otpTokens
     /\ nextId' = IF refusal = 0 THEN nextId + 1 ELSE nextId
     /\ last' = [op |-> "send-otp", type |-> type, email |-> email, otp |-> otp,
                 status |-> IF refusal # 0 THEN refusal
                            ELSE IF mail = "sent" THEN 200 ELSE 500]

\* send-otp requested by a client the model does not follow
SendOtp(email, type, otp, mail) ==
  /\ SendOtpEffect(email, type, otp, mail)
  /\ UNCHANGED <<bookings, now, cache, inflight, users, rateLimitStore>>

\* the handler's frame once verify-otp has parsed its body
VerifyFrame(email, otp, type) ==
  [pc |-> "findUser", route |-> "verify-otp", email |-> email,
   otp |-> otp, type |-> type, newPassword |-> None,
   userId |-> None, tokenId |-> 0, effect |-> None,
   status |-> 0, message |-> ""]

\* the handler's frame once reset-password has parsed its body
ResetFrame(email, otp, newPassword) ==
  [pc |-> "findUser", route |-> "reset-password", email |-> email,
   otp |-> otp, type |-> "reset", newPassword |-> newPassword,
   userId |-> None, tokenId |-> 0, effect |-> None,
   status |-> 0, message |-> ""]

\* POST /api/auth/verify-otp: the body is parsed
VerifyReceive(c, email, otp, type) ==
  LET frame == VerifyFrame(email, otp, type)
  IN /\ inflight[c] = Idle
     /\ IF Len(otp) # 6
        THEN /\ inflight' = [inflight EXCEPT ![c] =
                               OtpResponse(frame, 400, "OTP must be 6 digits")]
             /\ last' = OtpLast(frame, 400)
        ELSE /\ inflight' = [inflight EXCEPT ![c] = frame]
             /\ UNCHANGED last
     /\ UNCHANGED <<bookings, nextId, now, cache, authState>>

\* POST /api/auth/reset-password: the body is parsed
ResetReceive(c, email, otp, newPassword) ==
  LET frame == ResetFrame(email, otp, newPassword)
      issue == IF Len(otp) # 6 THEN "OTP must be 6 digits"
               ELSE IF Len(newPassword) < 6
               THEN "Password must be at least 6 characters" ELSE ""
  IN /\ inflight[c] = Idle
     /\ IF issue # ""
        THEN /\ inflight' = [inflight EXCEPT ![c] = OtpResponse(frame, 400, issue)]
             /\ last' = OtpLast(frame, 400)
        ELSE /\ inflight' = [inflight EXCEPT ![c] = frame]
             /\ UNCHANGED last
     /\ UNCHANGED <<bookings, nextId, now, cache, authState>>

\* prisma.user.findUnique of either route
OtpFindUser(c) ==
  LET frame == inflight[c]
  IN /\ frame.pc = "findUser"
     /\ IF UsersWithEmail(frame.email) = {}
        THEN /\ inflight' = [inflight EXCEPT ![c] =
                               OtpResponse(frame, 404, "User not found")]
             /\ last' = OtpLast(frame, 404)
        ELSE /\ inflight' = [inflight EXCEPT ![c] =
                               [frame EXCEPT !.pc = "findToken",
                                             !.userId = findUnique(frame.email).id]]
             /\ UNCHANGED last
     /\ UNCHANGED <<bookings, nextId, now, cache, authState>>

\* prisma.otpToken.findFirst of either route
OtpFindToken(c) ==
  LET frame == inflight[c]
      t == DateNow(now)
      type == IF frame.route = "verify-otp" THEN mapOtpType(frame.type)
              ELSE "PASSWORD_RESET"
  IN /\ frame.pc = "findToken"
     /\ IF ValidTokens(frame.userId, frame.otp, type, t) = {}
        THEN /\ inflight' = [inflight EXCEPT ![c] =
                               OtpResponse(frame, 400, "Invalid or expired OTP")]
             /\ last' = OtpLast(frame, 400)
        ELSE /\ inflight' = [inflight EXCEPT ![c] =
                  [frame EXCEPT !.pc = IF frame.route = "verify-otp"
                                       THEN "deleteToken" ELSE "updateUser",
                                !.tokenId = findFirst(frame.userId, frame.otp, type, t).id]]
             /\ UNCHANGED last
     /\ UNCHANGED <<bookings, nextId, now, cache, authState>>

\* reset-password: hashPassword, then prisma.user.update of the password
ResetUpdateUser(c) ==
  LET frame == inflight[c]
  IN /\ frame.pc = "updateUser"
     /\ users' = {IF u.id = frame.userId
                  THEN [u EXCEPT !.password = hashPassword(frame.newPassword)]
                  ELSE u : u \in users}
     /\ inflight' = [inflight EXCEPT ![c] =
                       [frame EXCEPT !.pc = "deleteToken", !.effect = "password"]]
     /\ UNCHANGED <<bookings, nextId, now, cache, last, otpTokens, rateLimitStore>>

\* prisma.otpToken.delete({where: {id}}) of either route: it throws when the
\* document is gone, and the catch block answers 500
OtpDeleteToken(c) ==
  LET frame == inflight[c]
  IN /\ frame.pc = "deleteToken"
     /\ IF \A k \in otpTokens : k.id # frame.tokenId
        THEN /\ inflight' = [inflight EXCEPT ![c] =
                               OtpResponse(frame, 500, "Internal server error")]
             /\ last' = OtpLast(frame, 500)
             /\ UNCHANGED otpTokens
        ELSE /\ otpTokens' = {k \in otpTokens : k.id # frame.tokenId}
             /\ inflight' = [inflight EXCEPT ![c].pc =
                               IF frame.route = "verify-otp" THEN "effect"
                               ELSE "deleteMany"]
             /\ UNCHANGED last
     /\ UNCHANGED <<bookings, nextId, now, cache, users, rateLimitStore>>

\* verify-otp after the delete: the branch of the type, and the response
VerifyEffect(c) ==
  LET frame == inflight[c]
  IN /\ frame.pc = "effect"
     /\ frame.route = "verify-otp"
     /\ users' = IF frame.type = "registration"
                 THEN {IF u.id = frame.userId THEN [u EXCEPT !.verified = TRUE]
                       ELSE u : u \in users}
                 ELSE users
     /\ inflight' = [inflight EXCEPT ![c] =
          [OtpResponse(frame, 200,
                       IF frame.type = "registration" THEN "Email verified successfully"
                       ELSE IF frame.type = "login" THEN "Login successful"
                       ELSE "OTP verified. You can now reset your password.")
             EXCEPT !.effect = IF frame.type = "registration" THEN "verified"
                               ELSE IF frame.type = "login" THEN "cookie"
                               ELSE None]]
     /\ last' = OtpLast(frame, 200)
     /\ UNCHANGED <<bookings, nextId, now, cache, otpTokens, rateLimitStore>>

\* reset-password after the delete: deleteMany for the user, and the response
ResetDeleteMany(c) ==
  LET frame == inflight[c]
  IN /\ frame.pc = "deleteMany"
     /\ otpTokens' = {k \in otpTokens : k.userId # frame.userId}
     /\ inflight' = [inflight EXCEPT ![c] =
                       OtpResponse(frame, 200, "Password reset successfully")]
     /\ last' = OtpLast(frame, 200)
     /\ UNCHANGED <<bookings, nextId, now, cache, users, rateLimitStore>>

OtpNext ==
  \/ \E call \in SendCalls : SendOtp(call[1], call[2], call[3], call[4])
  \/ \E c \in Clients, call \in VerifyCalls : VerifyReceive(c, call[1], call[2], call[3])
  \/ \E c \in Clients, call \in ResetCalls : ResetReceive(c, call[1], call[2], call[3])
  \/ \E c \in Clients : OtpFindUser(c)
  \/ \E c \in Clients : OtpFindToken(c)
  \/ \E c \in Clients : ResetUpdateUser(c)
  \/ \E c \in Clients : OtpDeleteToken(c)
  \/ \E c \in Clients : VerifyEffect(c)
  \/ \E c \in Clients : ResetDeleteMany(c)
  \/ Elapse

OtpSpec == OtpInit /\ [][OtpNext]_vars

(********************* the forgot-password page's flow **********************)

\* the page waiting for its user at a step, with the email and code typed
PageAt(step, email, otp) ==
  [pc |-> "page", step |-> step, email |-> email, otp |-> otp]

\* c1 is a browser on the forgot-password page, c2 a client of the API
FlowInit ==
  /\ bookings = {}
  /\ nextId = 1
  /\ now = 2
  /\ cache = <<>>
  /\ last = [op |-> "INIT"]
  /\ inflight = [c \in Clients |-> IF c = "c1" THEN PageAt("email", "a@x.io", "")
                                   ELSE Idle]
  /\ users = {Account}
  /\ otpTokens = {}
  /\ rateLimitStore = <<>>

\* handleSendOtp and handleResendOtp: send-otp with type reset; when the
\* response is ok the user reads the code in the mail
PageSend(c, otp, mail) ==
  LET page == inflight[c]
  IN /\ page.pc = "page"
     /\ page.step \in {"email", "verify"}
     /\ SendOtpEffect(page.email, "reset", otp, mail)
     /\ inflight' = [inflight EXCEPT ![c] =
                       IF last'.status = 200 THEN PageAt("verify", page.email, otp)
                       ELSE page]
     /\ UNCHANGED <<bookings, now, cache, users, rateLimitStore>>

\* handleVerifyOtp: verify-otp with the email and code of the page
PageVerify(c) ==
  LET page == inflight[c]
  IN /\ page.pc = "page"
     /\ page.step = "verify"
     /\ inflight' = [inflight EXCEPT ![c] =
                       VerifyFrame(page.email, page.otp, "reset")]
     /\ UNCHANGED <<bookings, nextId, now, cache, last, authState>>

\* handleResetPassword: reset-password with the email and code of the page
PageReset(c, newPassword) ==
  LET page == inflight[c]
  IN /\ page.pc = "page"
     /\ page.step = "reset"
     /\ Len(newPassword) >= 6
     /\ inflight' = [inflight EXCEPT ![c] =
                       ResetFrame(page.email, page.otp, newPassword)]
     /\ UNCHANGED <<bookings, nextId, now, cache, last, authState>>

\* the page reads the response: setStep('reset') after verify-otp, the login
\* page after reset-password, the same step after an error
PageResponse(c) ==
  LET frame == inflight[c]
  IN /\ frame.pc = "done"
     /\ inflight' = [inflight EXCEPT ![c] =
          IF frame.route = "verify-otp"
          THEN PageAt(IF frame.status = 200 THEN "reset" ELSE "verify",
                      frame.email, frame.otp)
          ELSE PageAt(IF frame.status = 200 THEN "login" ELSE "reset",
                      frame.email, frame.otp)]
     /\ UNCHANGED <<bookings, nextId, now, cache, last, authState>>

FlowNext ==
  \/ \E otp \in OtpCodes, mail \in {"sent", "failed"} : PageSend("c1", otp, mail)
  \/ PageVerify("c1")
  \/ \E pw \in {"secret1", "secret2"} : PageReset("c1", pw)
  \/ PageResponse("c1")
  \/ \E call \in ResetCalls : ResetReceive("c2", call[1], call[2], call[3])
  \/ \E c \in Clients : OtpFindUser(c)
  \/ \E c \in Clients : OtpFindToken(c)
  \/ \E c \in Clients : ResetUpdateUser(c)
  \/ \E c \in Clients : OtpDeleteToken(c)
  \/ \E c \in Clients : VerifyEffect(c)
  \/ \E c \in Clients : ResetDeleteMany(c)
  \/ Elapse

FlowSpec == FlowInit /\ [][FlowNext]_vars

(******************************* the rate limiter ***************************)

\* RATE_LIMIT_CONFIGS.passwordReset
RateWindowMs == 3600000
RateMaxRequests == 3

\* the most requests one key makes within a window
MaxBurst == 5

\* the clock of this specification counts half hours
RateClockValues == 1..5
RateDateNow(clock) == clock * (MsPerHour \div 2)

ClientIps == {"10.0.0.1", "10.0.0.2"}

\* defaultKeyGenerator
defaultKeyGenerator(ip) == "rate_limit:" \o ip

RateKeysOf(store) == {store[i].key : i \in DOMAIN store}
RateIndex(store, key) == CHOOSE i \in DOMAIN store : store[i].key = key

\* InMemoryRateLimitStore.get: the map it leaves, and whether it gives an entry
storeAfterGet(store, key, t) ==
  IF key \in RateKeysOf(store) /\ store[RateIndex(store, key)].resetTime < t
  THEN RemoveAt(store, RateIndex(store, key)) ELSE store

storeGetFinds(store, key, t) == key \in RateKeysOf(storeAfterGet(store, key, t))

\* a window test that keeps the window open at its reset time
WindowOverAfterReset(entry, t) == entry.resetTime < t

\* entry.resetTime <= now
WindowOver(entry, t) == entry.resetTime <= t

\* InMemoryRateLimitStore.set
storeSet(store, entry) ==
  IF entry.key \in RateKeysOf(store)
  THEN [store EXCEPT ![RateIndex(store, entry.key)] = entry]
  ELSE Append(store, entry)

\* the entry rateLimit stores for a request at t
countedEntry(store, key, t) ==
  LET got == storeAfterGet(store, key, t)
  IN IF ~storeGetFinds(store, key, t) \/ WindowOver(got[RateIndex(got, key)], t)
     THEN [key |-> key, count |-> 1, resetTime |-> t + RateWindowMs,
           firstRequest |-> t]
     ELSE [got[RateIndex(got, key)] EXCEPT !.count = @ + 1]

\* the RateLimitInfo rateLimit returns
rateLimitInfo(entry, t) ==
  LET remaining == IF RateMaxRequests - entry.count > 0
                   THEN RateMaxRequests - entry.count ELSE 0
      info == [limit |-> RateMaxRequests, remaining |-> remaining,
               reset |-> CeilDiv(entry.resetTime, 1000),
               isLimited |-> entry.count > RateMaxRequests]
  IN IF info.isLimited
     THEN [limit |-> info.limit, remaining |-> info.remaining, reset |-> info.reset,
           isLimited |-> TRUE, retryAfter |-> CeilDiv(entry.resetTime - t, 1000)]
     ELSE info

RateInit ==
  /\ bookings = {}
  /\ nextId = 1
  /\ now = 1
  /\ cache = <<>>
  /\ last = [op |-> "INIT"]
  /\ inflight = [c \in Clients |-> Idle]
  /\ users = {}
  /\ otpTokens = {}
  /\ rateLimitStore = <<>>

\* passwordResetRateLimit(request) for a request from ip
RateLimit(ip) ==
  LET t == RateDateNow(now)
      key == defaultKeyGenerator(ip)
      entry == countedEntry(rateLimitStore, key, t)
  IN /\ entry.count <= MaxBurst
     /\ rateLimitStore' = storeSet(storeAfterGet(rateLimitStore, key, t), entry)
     /\ last' = [op |-> "RATE", key |-> key, info |-> rateLimitInfo(entry, t)]
     /\ UNCHANGED <<bookings, nextId, now, cache, inflight, users, otpTokens>>

\* InMemoryRateLimitStore.cleanup, the sweep the constructor schedules
RateCleanup ==
  LET Live(e) == ~(e.resetTime < RateDateNow(now))
  IN /\ rateLimitStore' = SelectSeq(rateLimitStore, Live)
     /\ last' = [op |-> "CLEANUP"]
     /\ UNCHANGED <<bookings, nextId, now, cache, inflight, users, otpTokens>>

\* half an hour passes
RateTick ==
  /\ now + 1 \in RateClockValues
  /\ now' = now + 1
  /\ last' = [op |-> "TICK"]
  /\ UNCHANGED <<bookings, nextId, cache, inflight, authState>>

RateNext ==
  \/ \E ip \in ClientIps : RateLimit(ip)
  \/ RateCleanup
  \/ RateTick

RateSpec == RateInit /\ [][RateNext]_vars

(********************************* claims **********************************)

\* two ranges share an instant, both taken half-open
Overlap(s1, e1, s2, e2) == ~(e1 <= s2 \/ s1 >= e2)

SameResource(a, b) ==
  \/ a.equipmentId # None /\ a.equipmentId = b.equipmentId
  \/ a.brokerageId # None /\ a.brokerageId = b.brokerageId

\* C1: for every resource, no two stored bookings whose status is PENDING or
\* CONFIRMED have overlapping half-open [startDate, endDate) ranges.
C1_NoOverlappingActiveBookings ==
  \A a \in bookings, b \in bookings :
    (a.id # b.id /\ SameResource(a, b)
       /\ a.status \in ActiveStatuses /\ b.status \in ActiveStatuses)
    => ~Overlap(a.startDate, a.endDate, b.startDate, b.endDate)

\* a body whose dates pass every date check at the given clock
DatesValid(body, clock) ==
  /\ IsDatetime(body.startDate) /\ IsDatetime(body.endDate)
  /\ body.endDate.t > body.startDate.t
  /\ DayOf(body.startDate.t) >= DayOf(clock)

\* a body that names exactly one resource, which exists and is available
ResourceBookable(body) ==
  \/ /\ body.brokerageId = None
     /\ body.equipmentId \in DOMAIN equipment
     /\ equipment[body.equipmentId].available
  \/ /\ body.equipmentId = None
     /\ body.brokerageId \in DOMAIN brokerage
     /\ brokerage[body.brokerageId].available

IsConflictResponse(resp) ==
  /\ resp.status = 400
  /\ resp.message = "Equipment is already booked for the selected dates"

\* C2: of two valid creation requests for the same resource with overlapping
\* ranges, handled concurrently, exactly one succeeds and the other fails with
\* the booking-conflict error.
C2_ExactlyOneOfTwoSucceeds ==
  LET f1 == inflight["c1"]
      f2 == inflight["c2"]
  IN (/\ f1.pc = "done" /\ f2.pc = "done"
      /\ DatesValid(f1.body, now) /\ DatesValid(f2.body, now)
      /\ ResourceBookable(f1.body) /\ ResourceBookable(f2.body)
      /\ SameResource(f1.body, f2.body)
      /\ Overlap(f1.body.startDate.t, f1.body.endDate.t,
                 f2.body.startDate.t, f2.body.endDate.t))
     => \/ f1.resp.status = 201 /\ IsConflictResponse(f2.resp)
        \/ f2.resp.status = 201 /\ IsConflictResponse(f1.resp)

\* the bookings the collection held before the request of PostSpec arrived
Existing == {b \in bookings : b.id < 2}

\* C3: a request with valid dates on an existing, available resource is rejected
\* for conflict if and only if an existing PENDING or CONFIRMED booking on that
\* resource satisfies NOT (existing.end <= new.start OR existing.start >= new.end).
C3_ConflictIffHalfOpenOverlap ==
  LET f == inflight["c1"]
  IN (f.pc = "done" /\ DatesValid(f.body, now) /\ ResourceBookable(f.body)
        /\ f.body.totalPrice > 0)
     => (f.resp.status # 201
         <=> \E b \in Existing :
               /\ SameResource(b, f.body)
               /\ b.status \in ActiveStatuses
               /\ Overlap(b.startDate, b.endDate,
                          f.body.startDate.t, f.body.endDate.t))

\* C4: an owner cancellation succeeds if and only if the requester owns the
\* booking, its status is PENDING or CONFIRMED and its start is at least 24 hours
\* after now; on success the record is gone, on rejection the bookings are
\* unchanged, and a start less than 24 hours away gets the window error.
C4_CancelRule ==
  [][\A u \in Users, id \in BookingIds :
       CancelBooking(u, id) =>
         LET found == {b \in bookings : b.id = id}
             mine == {b \in found : b.userId = u /\ b.status \in ActiveStatuses}
             allowed == {b \in mine : b.startDate - now >= 24}
         IN /\ last'.resp.status = 200 <=> allowed # {}
            /\ allowed # {} => ~\E b \in bookings' : b.id = id
            /\ allowed = {} => bookings' = bookings
            /\ (mine # {} /\ allowed = {}) =>
                 last'.resp.message =
                   "Cannot cancel booking within 24 hours of start time"]_vars

\* a cancellation has just been accepted, a full day before the start or more
C4_Witness ==
  /\ last.op = "CANCEL"
  /\ last.resp.status = 200
  /\ bookings = {}
  /\ nextId = 2

IsListOrStatsKey(key) ==
  \/ \E u \in Users \cup {"undefined"} : key = bookingsListKey(1, PageLimit, u)
  \/ key = dashboardStatsKey

\* C5: after a booking creation succeeds, every cached booking-list entry and
\* every cached stats entry has been removed from the cache.
C5_CreationPurgesListsAndStats ==
  (last.op = "POST" /\ last.resp.status = 201)
    => \A i \in DOMAIN cache : ~IsListOrStatsKey(cache[i].key)

UnitHours(priceType) ==
  CASE priceType = "HOURLY"  -> 1
    [] priceType = "DAILY"   -> 24
    [] priceType = "WEEKLY"  -> 168
    [] priceType = "MONTHLY" -> 720

\* max(1, ceil(duration in units of the price type)) * unit price
ExpectedPrice(item, startDate, endDate) ==
  IF item.priceType = "FIXED" THEN item.price
  ELSE LET units == CeilDiv(endDate - startDate, UnitHours(item.priceType))
       IN (IF units < 1 THEN 1 ELSE units) * item.price

\* C6: the totalPrice stored on a created booking equals max(1, ceil(duration in
\* units of the resource's price type)) times the unit price (the price itself
\* for FIXED).
C6_StoredPriceIsComputed ==
  \A b \in bookings \ Existing :
    b.totalPrice = ExpectedPrice(ItemOf(b), b.startDate, b.endDate)

\* the steps of a creation request that end it with an error
Rejects(c) ==
  /\ inflight[c].pc \notin {"idle", "done"}
  /\ inflight'[c].pc = "done"
  /\ inflight'[c].resp.status # 201

\* the first check a request violates, in the order format, dates ordered,
\* start not past, resource available, no overlap
FirstViolatedCheck(body, clock, store) ==
  IF ~(IsDatetime(body.startDate) /\ IsDatetime(body.endDate)) THEN "format"
  ELSE IF ~(body.endDate.t > body.startDate.t) THEN "order"
  ELSE IF DayOf(body.startDate.t) < DayOf(clock) THEN "past"
  ELSE IF ~ResourceBookable(body) THEN "resource"
  ELSE IF \E b \in store :
            /\ SameResource(b, body)
            /\ b.status \in ActiveStatuses
            /\ Overlap(b.startDate, b.endDate, body.startDate.t, body.endDate.t)
       THEN "conflict"
  ELSE "none"

ReasonsOf(kind, clock) ==
  CASE kind = "format"   -> {"Invalid start date format", "Invalid end date format"}
    [] kind = "order"    -> {"End date must be after start date"}
    [] kind = "past"     -> {"Start date cannot be in the past", PastMessage(clock)}
    [] kind = "resource" -> {"Equipment not available", "Brokerage not available"}
    [] kind = "conflict" -> {"Equipment is already booked for the selected dates"}
    [] OTHER -> {}

\* every reason a response carries: its message and its per-field errors
Reported(resp) == {resp.message} \cup {resp.errors[f] : f \in DOMAIN resp.errors}

OneResource(body) == (body.equipmentId = None) # (body.brokerageId = None)

\* C7: a rejected creation request reports the first check it violates, in the
\* order format, end after start, start not past, resource exists and is
\* available, no overlap; a later check's failure never replaces it.
C7_FirstViolatedCheckReported ==
  [][\A c \in Clients :
       LET body == inflight[c].body
           first == FirstViolatedCheck(body, now, bookings)
       IN (Rejects(c) /\ OneResource(body) /\ first # "none")
          => Reported(inflight'[c].resp) \cap ReasonsOf(first, now) # {}]_vars

\* the same request, naming a resource that exists and is flagged unavailable
UnavailableTwin(body) ==
  IF body.equipmentId # None THEN [body EXCEPT !.equipmentId = "e2"] ELSE body

\* C8: the failure kinds have distinct reasons: a request rejected because its
\* resource id matches no resource gets a reason different from the one the same
\* request gets for a resource that exists and is flagged unavailable.
C8_NotFoundDiffersFromUnavailable ==
  LET f == inflight["c1"]
  IN (/\ f.pc = "done"
      /\ DatesValid(f.body, now)
      /\ f.body.brokerageId = None
      /\ f.body.equipmentId # None
      /\ f.body.equipmentId \notin DOMAIN equipment
      /\ f.body.totalPrice > 0)
     => f.resp.message # CreateResponse(UnavailableTwin(f.body), now, bookings).message

\* the two dates of a body are the same instant
SameInstant(body) ==
  \/ body.endDate = body.startDate
  \/ ParseDate(body.startDate) # NaN /\ ParseDate(body.endDate) = ParseDate(body.startDate)

\* C9: a creation request whose endDate equals its startDate always fails with
\* the invalid-date-range error, and no booking is persisted.
C9_EqualDatesRejected ==
  \A c \in Clients :
    LET f == inflight[c]
    IN (f.pc # "idle" /\ SameInstant(f.body))
       => /\ f.pc \in {"received", "done"}
          /\ f.pc = "done" =>
               /\ f.resp.status = 400
               /\ "endDate" \in DOMAIN f.resp.errors
               /\ f.resp.errors["endDate"] = "End date must be after start date"
          /\ bookings = Existing

\* a request whose two dates are the same valid instant, today, has been answered
C9_Witness ==
  LET f == inflight["c1"]
  IN /\ f.pc = "done"
     /\ IsDatetime(f.body.startDate)
     /\ f.body.endDate = f.body.startDate
     /\ DayOf(f.body.startDate.t) = DayOf(now)
     /\ OneResource(f.body)
     /\ f.resp.status = 400

\* the response says the start is in the past
PastReported(resp, clock) ==
  \/ /\ "startDate" \in DOMAIN resp.errors
     /\ resp.errors["startDate"] = "Start date cannot be in the past"
  \/ resp.message = PastMessage(clock)

\* C10: a request is rejected as being in the past exactly when the calendar day
\* of its startDate is earlier than the calendar day of now; a start earlier
\* today than the current time is not rejected as past.
C10_PastIffEarlierDay ==
  [][\A c \in Clients :
       LET body == inflight[c].body
           start == ParseDate(body.startDate)
       IN ((PostValidate(c) \/ PostTxBegin(c)) /\ start # NaN)
          => /\ DayOf(start) < DayOf(now)
                  => inflight'[c].pc = "done" /\ PastReported(inflight'[c].resp, now)
             /\ ~(DayOf(start) < DayOf(now))
                  => ~(inflight'[c].pc = "done" /\ PastReported(inflight'[c].resp, now))]_vars

\* a booking whose start is today, earlier than the current time, was created
C10_Witness ==
  LET f == inflight["c1"]
  IN /\ f.pc = "done"
     /\ f.resp.status = 201
     /\ IsDatetime(f.body.startDate)
     /\ f.body.startDate.t < now
     /\ DayOf(f.body.startDate.t) = DayOf(now)
     /\ \E b \in bookings : b.id = 2 /\ b.startDate = f.body.startDate.t

\* C11: every booking a creation stores references exactly one resource,
\* equipment or brokerage, never both and never neither, and is stored with
\* status PENDING; the stored bookings all reference exactly one resource.
C11_OneResourceAndPending ==
  [][/\ \A b \in bookings' \ bookings :
          /\ (b.equipmentId = None) # (b.brokerageId = None)
          /\ b.status = "PENDING"
     /\ \A b \in bookings' : (b.equipmentId = None) # (b.brokerageId = None)]_vars

\* a request has stored a booking for a brokerage service
C11_Witness ==
  /\ inflight["c1"].pc = "committed"
  /\ \E b \in bookings :
       b.id = 2 /\ b.equipmentId = None /\ b.brokerageId = "b1" /\ b.status = "PENDING"

\* C12: after an owner cancellation succeeds, every cached booking-list entry
\* and every cached stats entry has been removed from the cache, so that a read
\* that follows computes its result anew.
C12_CancellationPurgesListsAndStats ==
  (last.op = "CANCEL" /\ last.resp.status = 200)
    => \A i \in DOMAIN cache :
         ~(\/ Includes(cache[i].key, "bookings:list")
           \/ Includes(cache[i].key, "stats:"))

\* C13: an admin delete request, through either delete endpoint, on a booking
\* whose status is PENDING or CONFIRMED is rejected and leaves the booking stored.
C13_AdminDeletesOnlyCompleted ==
  [][\A id \in BookingIds :
       (AdminDeleteBooking(id) \/ DeleteBooking(id))
       => \A b \in bookings :
            (b.id = id /\ b.status \in ActiveStatuses)
            => (b \in bookings' /\ last'.resp.status # 200)]_vars

StatusRank(status) ==
  CASE status = "PENDING" -> 1
    [] status = "CONFIRMED" -> 2
    [] status = "COMPLETED" -> 3
    [] OTHER -> 0

\* C14: the status of a stored booking only moves forward along PENDING,
\* CONFIRMED, COMPLETED, and no stored booking has status CANCELLED.
C14_StatusOnlyMovesForward ==
  [][/\ \A b \in bookings, c \in bookings' :
          b.id = c.id => StatusRank(b.status) <= StatusRank(c.status)
     /\ \A c \in bookings' : c.status # "CANCELLED"]_vars

\* C16: get(key) on an entry whose absolute expiry has not passed returns the
\* value the most recent set stored under the key and makes now the entry's
\* lastAccessed; otherwise it reports a miss and the key is no longer stored.
C16_GetReturnsLiveValue ==
  [][/\ last'.op = "GET" =>
        \A k \in CacheKeyNames :
          GetEntry(k) =>
            LET live == {i \in DOMAIN cache :
                           /\ cache[i].key = k
                           /\ (cache[i].expiresAt = NoExpiry
                               \/ cache[i].expiresAt >= now * MsPerHour)}
            IN IF live # {}
               THEN /\ last'.hit
                    /\ \A i \in live :
                         /\ last'.value = cache[i].value
                         /\ \E j \in DOMAIN cache' :
                              /\ cache'[j].key = k
                              /\ cache'[j].value = cache[i].value
                              /\ cache'[j].lastAccessed = now * MsPerHour
               ELSE /\ ~last'.hit
                    /\ \A j \in DOMAIN cache' : cache'[j].key # k
     /\ last'.op = "SET" =>
          \A call \in SetCalls :
            SetEntry(call[1], call[2], call[3]) =>
              \E j \in DOMAIN cache' :
                cache'[j].key = call[1] /\ cache'[j].value = call[2]]_vars

\* a get has hit an entry at the very instant of its expiry, an hour after its set
C16_Witness ==
  /\ last.op = "GET"
  /\ last.hit
  /\ \E i \in DOMAIN cache :
       /\ cache[i].value = last.value
       /\ cache[i].expiresAt = now * MsPerHour
       /\ cache[i].lastAccessed = now * MsPerHour
       /\ cache[i].createdAt < cache[i].lastAccessed

\* C17: after any sequence of cache operations, at any clock values, the number
\* of stored entries does not exceed the capacity the cache was built with.
C17_SizeWithinCapacity == Len(cache) <= Capacity

\* C18: set on a cache at capacity evicts exactly one entry, one whose
\* lastAccessed is the oldest of all stored entries, before it inserts; set on a
\* cache below capacity evicts nothing.
C18_SetEvictsOneOldest ==
  [][\A call \in SetCalls :
       SetEntry(call[1], call[2], call[3]) =>
         IF Len(cache) >= Capacity
         THEN \E i \in DOMAIN cache :
                /\ \A j \in DOMAIN cache : cache[i].lastAccessed <= cache[j].lastAccessed
                /\ CacheKeysOf(cache') =
                     (CacheKeysOf(cache) \ {cache[i].key}) \cup {call[1]}
         ELSE CacheKeysOf(cache') = CacheKeysOf(cache) \cup {call[1]}]_vars

\* C19: an entry stored by set with a ttl of 0 or a negative ttl is expired at
\* once: a get or a has of its key at any equal or later clock value misses.
C19_NonPositiveTtlExpiresAtOnce ==
  [][\A call \in SetCalls :
       (SetEntry(call[1], call[2], call[3]) /\ call[3] <= 0) =>
         \A h \in CacheClockValues :
           h >= now => /\ ~cacheGetHits(cache', call[1], DateNow(h))
                       /\ ~cacheHas(cache', call[1], DateNow(h))]_vars

\* C20: a withCache call whose key is stored and unexpired returns the stored
\* value without invoking fn; a call whose key is absent or expired invokes fn
\* once, stores its result under the key with the wrapper's ttl and returns it.
C20_WithCacheCallsThroughOnMissOnly ==
  [][last'.op = "CALL" =>
       \A k \in {"k1", "k2"}, r \in FnResults :
         CachedCall(k, r) =>
           LET live == {i \in DOMAIN cache :
                          /\ cache[i].key = k
                          /\ (cache[i].expiresAt = NoExpiry
                              \/ cache[i].expiresAt >= now * MsPerHour)}
           IN IF live # {}
              THEN /\ last'.invoked = 0
                   /\ \A i \in live : last'.value = cache[i].value
              ELSE /\ last'.invoked = 1
                   /\ last'.value = r
                   /\ \E j \in DOMAIN cache' :
                        /\ cache'[j].key = k
                        /\ cache'[j].value = r
                        /\ cache'[j].expiresAt = now * MsPerHour + WrapperTtl(k)]_vars

\* C15: a transaction body that fails with a business error is executed once
\* and its error surfaces at once: dbUtils.transaction makes no further attempt
\* after an attempt that ended with a business error.
C15_BusinessErrorNotRetried ==
  [][\A c \in Clients, e \in BusinessErrors :
       TxnAttempt(c, e) =>
         /\ inflight'[c].pc = "thrown"
         /\ inflight'[c].outcome = e
         /\ inflight'[c].executed = 1]_vars

\* p occurs in key as a literal substring
Contains(key, p) ==
  \E i \in 1..(Len(key) + 1), j \in 0..Len(key) : SubSeq(key, i, j) = p

\* C21: invalidatePattern(p) removes exactly the entries whose key contains p
\* as a literal substring, returns the number of entries it removed and leaves
\* every other entry as it was.
C21_InvalidatePatternRemovesMatches ==
  [][last'.op = "INVALIDATE" =>
       \A p \in Patterns :
         InvalidateKeys(p) =>
           LET hit == {i \in DOMAIN cache : Contains(cache[i].key, p)}
           IN /\ last'.count = Cardinality(hit)
              /\ Len(cache') = Len(cache) - Cardinality(hit)
              /\ \A i \in hit : \A j \in DOMAIN cache' : cache'[j].key # cache[i].key
              /\ \A i \in DOMAIN cache \ hit : \E j \in DOMAIN cache' : cache'[j] = cache[i]]_vars

\* invalidatePattern has removed one of two entries and left k1
C21_Witness ==
  /\ last.op = "INVALIDATE"
  /\ last.count = 1
  /\ Len(cache) = 1
  /\ cache[1].key = "k1"

\* the entry carries an expiry and that instant is before t
ExpiryPassed(entry, t) == entry.expiresAt # NoExpiry /\ entry.expiresAt < t

\* the entries of c at the positions in keep, in their order
RECURSIVE Restrict(_, _)
Restrict(c, keep) ==
  IF c = <<>> THEN <<>>
  ELSE LET rest == Restrict(Tail(c), {i - 1 : i \in keep \ {1}})
       IN IF 1 \in keep THEN <<Head(c)>> \o rest ELSE rest

\* C22: a sweep removes exactly the entries whose expiry has passed and leaves
\* every other entry as it was; an entry set without a ttl survives every sweep
\* and get and has never report it expired.
C22_SweepRemovesExactlyExpired ==
  [][/\ last'.op = "CLEANUP" =>
          /\ cache' = Restrict(cache, {i \in DOMAIN cache :
                                         ~ExpiryPassed(cache[i], DateNow(now))})
          /\ \A i \in DOMAIN cache :
               cache[i].expiresAt = NoExpiry => \E j \in DOMAIN cache' : cache'[j] = cache[i]
     /\ last'.op \in {"GET", "HAS"} =>
          \A k \in CacheKeyNames :
            (/\ k \in CacheKeysOf(cache)
             /\ cache[CacheIndex(cache, k)].expiresAt = NoExpiry
             /\ (GetEntry(k) \/ HasEntry(k)))
              => last'.hit /\ k \in CacheKeysOf(cache')]_vars

\* a sweep has removed one entry and left one that was set without a ttl
C22_Witness ==
  /\ last.op = "CLEANUP"
  /\ last.removedCount = 1
  /\ Len(cache) = 1
  /\ cache[1].expiresAt = NoExpiry

\* C23: has(key) answers true exactly when get(key) at the same instant would
\* hit, removes the entry when its expiry has passed, and leaves every other
\* field of the map, lastAccessed included, as it was, so the entry the next
\* set evicts is the one it would have evicted without the call.
C23_HasChecksExpiryWithoutTouching ==
  [][last'.op = "HAS" =>
       \A k \in CacheKeyNames :
         HasEntry(k) =>
           LET t == DateNow(now)
               present == k \in CacheKeysOf(cache)
               passed == present /\ ExpiryPassed(cache[CacheIndex(cache, k)], t)
               swept == IF passed
                        THEN Restrict(cache, {i \in DOMAIN cache : cache[i].key # k})
                        ELSE cache
           IN /\ last'.hit = (present /\ ~passed)
              /\ last'.hit = cacheGetHits(cache, k, t)
              /\ cache' = swept
              /\ \A later \in CacheClockValues :
                   evictLRU(cache', Capacity, DateNow(later))
                     = evictLRU(swept, Capacity, DateNow(later))]_vars

\* has answered true in a full map whose entries were all last touched earlier
C23_Witness ==
  /\ last.op = "HAS"
  /\ last.hit
  /\ Len(cache) = Capacity
  /\ \A i \in DOMAIN cache : cache[i].lastAccessed < DateNow(now)
  /\ \E i, j \in DOMAIN cache : cache[i].lastAccessed < cache[j].lastAccessed

\* C24: dbUtils.transaction executes fn at most maxRetries times, returns at
\* the first attempt that succeeds and makes no attempt after it, throws the
\* error of its last attempt when none succeeded, and always returns or throws.
C24_TransactionAttemptsBounded ==
  /\ [](\A c \in Clients : inflight[c].executed <= inflight[c].maxRetries)
  /\ [][\A c \in Clients :
          /\ inflight[c].pc \in {"returned", "thrown"} => inflight'[c] = inflight[c]
          /\ TxnAttempt(c, "ok") =>
               inflight'[c].pc = "returned" /\ inflight'[c].outcome = "ok"
          /\ (inflight[c].pc # "returned" /\ inflight'[c].pc = "returned") =>
               TxnAttempt(c, "ok")
          /\ (inflight[c].pc # "thrown" /\ inflight'[c].pc = "thrown") =>
               \E e \in AttemptOutcomes \ {"ok"} :
                 TxnAttempt(c, e) /\ inflight'[c].outcome = e]_vars
  /\ <>[](\A c \in Clients : inflight[c].pc \in {"returned", "thrown"})

\* one call returned at its third attempt, another threw after three failures
C24_Witness ==
  \E c, d \in Clients :
    /\ inflight[c].pc = "returned" /\ inflight[c].executed = DefaultMaxRetries
    /\ inflight[d].pc = "thrown" /\ inflight[d].executed = DefaultMaxRetries
    /\ inflight[d].outcome \in TransientErrors

\* the backoff delays, in ms, in the order they are waited
ExpectedDelays == <<2000, 4000>>

C26_CompletedReadLeavesNoStaleEntry ==
  [][\A c \in Clients :
       ReadStore(c) =>
         LET target == inflight[c].target
         IN cacheGetValue(cache', target.key) = fetchResult(target, bookings')]_vars

\* C28: a creation request answered with an error leaves the stored bookings
\* and the cache as they were before it: the step that rejects it changes
\* neither, and when it has ended no booking was inserted and both cached
\* entries are still there.
C28_RejectedRequestChangesNothing ==
  /\ [][\A c \in Clients :
          Rejects(c) => bookings' = bookings /\ cache' = cache /\ nextId' = nextId]_vars
  /\ [](\A c \in Clients :
          (inflight[c].pc = "done" /\ inflight[c].resp.status # 201) =>
            /\ bookings \in SampleStores
            /\ nextId = 2
            /\ \E t \in ClockValues : cache = WarmCache(bookings, DateNow(t)))

\* a request was refused by the conflict query with both entries still cached
C28_Witness ==
  /\ inflight["c1"].pc = "done"
  /\ inflight["c1"].resp.message = "Equipment is already booked for the selected dates"
  /\ Len(cache) = 2
  /\ bookings # {}

\* the requests that found the same token document
SameToken(c, d) ==
  /\ c # d
  /\ inflight[c].pc # "idle" /\ inflight[d].pc # "idle"
  /\ inflight[c].tokenId # 0
  /\ inflight[c].tokenId = inflight[d].tokenId

\* C29: a token takes effect at most once: of the requests that presented the
\* same token, at most one has verified the email, issued the login cookie or
\* changed the password, whatever the order of their find, update and delete
\* steps.
C29_TokenTakesEffectOnce ==
  \A c, d \in Clients :
    SameToken(c, d) => inflight[c].effect = None \/ inflight[d].effect = None

\* C27: the reset-password request the forgot-password page sends at its step
\* 'reset', that is after send-otp and a verify-otp answered 200 for its email
\* and code, is answered 200 when it is answered before the code has expired,
\* and the account's password is then the hash of the new password.
C27_ResetSucceedsAfterVerification ==
  [][(/\ inflight["c1"].pc \notin {"page", "done"}
      /\ inflight["c1"].route = "reset-password"
      /\ inflight'["c1"].pc = "done"
      /\ now = 2)
       => /\ inflight'["c1"].status = 200
          /\ \E u \in users' :
               /\ u.email = inflight["c1"].email
               /\ u.password = hashPassword(inflight["c1"].newPassword)]_vars

\* the entries of the store for a key whose window is open at t
OpenWindows(key, t) ==
  {i \in DOMAIN rateLimitStore :
     rateLimitStore[i].key = key /\ rateLimitStore[i].resetTime > t}

\* C30: for each key a request inside an open window is counted in it, and it
\* is limited exactly when it is later than the third of its window, with a
\* positive retryAfter; a request made when no window is open starts a window
\* of one hour with count 1 and is not limited.
C30_FirstRequestsOfWindowPass ==
  [][last'.op = "RATE" =>
       \A ip \in ClientIps :
         RateLimit(ip) =>
           LET t == now * 1800000
               key == "rate_limit:" \o ip
               open == OpenWindows(key, t)
               after == CHOOSE i \in DOMAIN rateLimitStore' :
                          rateLimitStore'[i].key = key
               counted == rateLimitStore'[after]
           IN /\ Cardinality({i \in DOMAIN rateLimitStore' :
                                rateLimitStore'[i].key = key}) = 1
              /\ IF open # {}
                 THEN \A i \in open :
                        /\ counted.count = rateLimitStore[i].count + 1
                        /\ counted.resetTime = rateLimitStore[i].resetTime
                 ELSE counted.count = 1 /\ counted.resetTime = t + 3600000
              /\ last'.info.isLimited = (counted.count > 3)
              /\ last'.info.isLimited =>
                   /\ last'.info.retryAfter > 0
                   /\ last'.info.retryAfter * 1000 >= counted.resetTime - t
                   /\ (last'.info.retryAfter - 1) * 1000 < counted.resetTime - t]_vars

\* the fourth request of a window was limited half an hour before its reset,
\* while the other key was in a window of its own
C30_Witness ==
  /\ last.op = "RATE"
  /\ last.info.isLimited
  /\ last.info.retryAfter = 1800
  /\ Len(rateLimitStore) = 2
  /\ \E i \in DOMAIN rateLimitStore :
       rateLimitStore[i].count = 1 /\ rateLimitStore[i].firstRequest = now * 1800000

====
